---- MODULE Spec2Model ----
(***************************************************************************)
(* Model of the cryptocurrency income calculator (src/mining-taxes.js):    *)
(* the three transaction fetchers with their pagination, the per-transfer  *)
(* price lookups, the result record and the join that prints the report.   *)
(*                                                                         *)
(* One action is one event-loop turn: the arrival of one HTTP response (or *)
(* failure) together with every promise reaction it triggers, since those  *)
(* run as microtasks before the next response is delivered.                *)
(***************************************************************************)
EXTENDS Integers, Sequences, FiniteSets, TLC

VARIABLES
    config,        \* config.addresses: sequence of [coin, addresses], in key order
    started,       \* TRUE once the top-level script (lines 205-209) has run
    groups,        \* one entry per promise of the flattened `promises` array
    pricePromise,  \* per coin: the current-price promise made in getTaxableEventPromises
    source,        \* which of the simulated upstreams answers (see Sources)
    issued,        \* the requests the top-level script sent, in the order sent
    served,        \* the fixed upstream of FixedSpec, the log of pages of CursorSpec
    run,           \* state of Promise.all(promises).then(printResults).catch(console.log)
    report         \* the lines printResults wrote

vars ==
    <<config, started, groups, pricePromise, source, issued, served, run, report>>

----------------------------------------------------------------------------
(* Bounds of the simulated upstream services.                              *)

\* Largest number of entries one response page carries.
PageSize == 2
\* Largest number of page requests one fetch issues before the upstream
\* must answer with a final page (or fail).
MaxPages == 3
\* Largest number of transfers one fetch keeps.
MaxTxns == 2
\* Largest total a fixed upstream reports.
FixedTotal == 2
\* Largest number of pages the logged upstream serves to one fetch.
CursorPages == 2

----------------------------------------------------------------------------
(* JavaScript numbers, as exact decimals m * 10^(-e), plus NaN and         *)
(* undefined.  The amounts and prices the upstreams of this model answer   *)
(* with are chosen so that quotients, products and sums of Numbers are     *)
(* exact; what a Number cannot hold is lost where a string of digits is    *)
(* converted (ToNumber).                                                   *)

Undefined == [k |-> "undef", m |-> 0, e |-> 0]
NaN == [k |-> "nan", m |-> 0, e |-> 0]

RECURSIVE Norm(_, _)
Norm(m, e) ==
    IF m = 0 THEN [k |-> "num", m |-> 0, e |-> 0]
    ELSE IF e > 0 /\ m % 10 = 0 THEN Norm(m \div 10, e - 1)
    ELSE [k |-> "num", m |-> m, e |-> e]

Num(n) == Norm(n, 0)

RECURSIVE Pow10(_)
Pow10(n) == IF n = 0 THEN 1 ELSE 10 * Pow10(n - 1)

\* A decimal string of digits, as JSON carries large integers: `s` holds
\* the digits, most significant first.
Str(digits) == [k |-> "str", m |-> 0, e |-> 0, s |-> digits]

Front(d) == SubSeq(d, 1, Len(d) - 1)

\* Digit sequences without leading zeros; zero is <<0>>.
RECURSIVE Canon(_)
Canon(d) ==
    IF d = <<>> THEN <<0>>
    ELSE IF Len(d) > 1 /\ Head(d) = 0 THEN Canon(Tail(d))
    ELSE d

\* d * f + c on digits, for small f and c.
RECURSIVE DScale(_, _, _)
DScale(d, f, c) ==
    IF d = <<>> THEN (IF c = 0 THEN <<>> ELSE DScale(<<>>, f, c \div 10) \o <<c % 10>>)
    ELSE LET t == d[Len(d)] * f + c
         IN  DScale(Front(d), f, t \div 10) \o <<t % 10>>

\* d - c on digits, for small c not above d.
RECURSIVE DSub(_, _)
DSub(d, c) ==
    IF c = 0 THEN d
    ELSE LET t == d[Len(d)] - c
             b == IF t >= 0 THEN 0 ELSE (9 - t) \div 10
         IN  DSub(Front(d), b) \o <<t + 10 * b>>

\* d mod p for small p.
RECURSIVE DMod(_, _)
DMod(d, p) ==
    IF d = <<>> THEN 0 ELSE (DMod(Front(d), p) * 10 + d[Len(d)]) % p

\* a < b on canonical digit sequences.
RECURSIVE DLess(_, _)
DLess(a, b) ==
    IF Len(a) # Len(b) THEN Len(a) < Len(b)
    ELSE IF a = <<>> THEN FALSE
    ELSE IF Head(a) # Head(b) THEN Head(a) < Head(b)
    ELSE DLess(Tail(a), Tail(b))

RECURSIVE Pow2(_)
Pow2(n) == IF n = 0 THEN 1 ELSE 2 * Pow2(n - 1)

\* 2^53: a Number holds 53 significant bits.
TwoTo53 == <<9, 0, 0, 7, 1, 9, 9, 2, 5, 4, 7, 4, 0, 9, 9, 2>>

\* The number of low bits of the integer d that a Number cannot hold.
RECURSIVE LostBits(_, _)
LostBits(d, k) ==
    IF DLess(d, Canon(DScale(TwoTo53, Pow2(k), 0))) THEN k
    ELSE LostBits(d, k + 1)

\* The integer d rounded to 53 significant bits, ties to even.
RoundToDouble(d) ==
    LET k == LostBits(d, 0)
        p == Pow2(k)
        r == DMod(d, p)
        down == Canon(DSub(d, r))
        up == Canon(DScale(d, 1, p - r))
    IN  IF r = 0 THEN d
        ELSE IF 2 * r < p THEN down
        ELSE IF 2 * r > p THEN up
        ELSE IF DMod(d, 2 * p) = r THEN down ELSE up

\* The digits d followed by z zeros, as m * 10^z.  The significant digits
\* of the values the model handles fit the integers of the checker.
RECURSIVE Scientific(_, _)
Scientific(d, z) ==
    IF Len(d) > 1 /\ d[Len(d)] = 0 THEN Scientific(Front(d), z + 1)
    ELSE LET RECURSIVE Value(_)
             Value(x) == IF x = <<>> THEN 0
                         ELSE 10 * Value(Front(x)) + x[Len(x)]
         IN  [k |-> "num", m |-> Value(d), e |-> IF Value(d) = 0 THEN 0 ELSE -z]

\* ToNumber, which `/` applies to its operands: a Number is itself, a
\* string of digits becomes the nearest Number.
ToNumber(a) ==
    IF a.k = "str" THEN Scientific(RoundToDouble(Canon(a.s)), 0) ELSE a

\* a / 10^fexp
Div(a, fexp) ==
    LET x == ToNumber(a)
    IN  IF x.k # "num" THEN NaN ELSE Norm(x.m, x.e + fexp)

\* a * b
Mul(a, b) ==
    IF a.k # "num" \/ b.k # "num" THEN NaN ELSE Norm(a.m * b.m, a.e + b.e)

\* a + b
Add(a, b) ==
    IF a.k # "num" \/ b.k # "num" THEN NaN
    ELSE IF a.m = 0 THEN b
    ELSE IF b.m = 0 THEN a
    ELSE LET e == IF a.e > b.e THEN a.e ELSE b.e
         IN  Norm(a.m * Pow10(e - a.e) + b.m * Pow10(e - b.e), e)

----------------------------------------------------------------------------
(* The coin table.                                                         *)

Coins == {"bitcoin", "litecoin", "ethereum"}

CoinName(coin) ==
    CASE coin = "bitcoin" -> "Bitcoin"
      [] coin = "litecoin" -> "Litecoin"
      [] coin = "ethereum" -> "Ethereum"

CoinCode(coin) ==
    CASE coin = "bitcoin" -> "BTC"
      [] coin = "litecoin" -> "LTC"
      [] coin = "ethereum" -> "ETH"

\* factor = 10^FactorExp
FactorExp(coin) ==
    CASE coin = "bitcoin" -> 8
      [] coin = "litecoin" -> 8
      [] coin = "ethereum" -> 18

\* Faulty variant: no coin is fetched in one multi-address request.
MultiAddrNever(coin) == FALSE

MultiAddr(coin) == coin = "bitcoin"

----------------------------------------------------------------------------
(* The configuration file and the upstream responses the model draws from. *)

Entry(coin, addresses) == [coin |-> coin, addresses |-> addresses]

\* config.addresses, as read from config.json.
Configs ==
    { <<Entry("bitcoin", <<"b1", "b2">>)>>,
      <<Entry("litecoin", <<"l1">>)>>,
      <<Entry("ethereum", <<"e1">>)>>,
      <<Entry("ethereum", <<"e1", "e2">>)>>,
      <<Entry("bitcoin", <<"b1", "b2">>), Entry("litecoin", <<"l1">>)>>,
      <<Entry("ethereum", <<>>)>>,
      <<>> }

SeqsUpTo(S, n) == UNION {[1..k -> S] : k \in 0..n}

\* The simulated upstreams.  "paged" answers a lone address group with up
\* to MaxPages pages of up to PageSize entries, of which one is kept;
\* "wide" answers it with a single page that keeps up to MaxTxns transfers;
\* "narrow" answers each of several concurrent groups with a single page of
\* at most one entry; "serial" answers a lone group with up to two pages
\* of at most one entry each, and both entries may be kept.
\* ("fixed" names the upstream of FixedSpec, which is `served`.)
Sources == {"paged", "wide", "narrow", "serial"}

PageLimit == IF source \in {"narrow", "serial"} THEN 1 ELSE PageSize
RequestLimit ==
    IF source = "paged" THEN MaxPages ELSE IF source = "serial" THEN 2 ELSE 1
TxnLimit ==
    IF source = "wide" THEN MaxTxns ELSE IF source = "serial" THEN 2 ELSE 1

RECURSIVE CountGroups(_)
CountGroups(cfg) ==
    IF cfg = <<>> THEN 0
    ELSE CountGroups(Tail(cfg))
         + (IF Head(cfg).coin = "bitcoin" THEN 1 ELSE Len(Head(cfg).addresses))

SourcesFor(cfg) ==
    IF CountGroups(cfg) <= 1 THEN {"paged", "wide", "serial"} ELSE {"narrow"}

\* Unit prices the price service answers with.
Prices == {Num(2)}
\* The historical price the price service answers a lookup of `code` on
\* `date` with: a different price for every code and day.
SpotPrice(code, date) ==
    Num(2 + date + (CASE code = "BTC" -> 0 [] code = "LTC" -> 2 [] code = "ETH" -> 4))

\* blockchain.info multiaddr: one entry of json.txs.
BtcTx(result, addr, time) == [result |-> result, addr |-> addr, time |-> time]
BtcTxs ==
    { BtcTx(-1, "x", 86400), BtcTx(0, "b1", 86400),
      BtcTx(500000000, "b1", 86399), BtcTx(500000000, "x", 86400) }
\* The pages a request at `offset` may be answered with: the total never
\* falls short of the entries delivered up to and including the page.
BtcPages(offset) ==
    UNION { [txs : {txs},
             n_tx : (offset + Len(txs))..(PageLimit * RequestLimit)] :
            txs \in SeqsUpTo(BtcTxs, PageLimit) }

\* A fixed multiaddr upstream: it reports the same total n_tx in every
\* response and answers a request at an offset always with the same page,
\* which may be full, short or empty.
FixedTxs == {BtcTx(500000000, "b1", 86399), BtcTx(-1, "x", 86400)}
FixedUpstreams ==
    [n_tx : 0..FixedTotal,
     pages : [0..FixedTotal -> SeqsUpTo(FixedTxs, PageSize)]]
NoUpstream == [n_tx |-> 0, pages |-> <<>>]

\* blockcypher address endpoint: one entry of json.txrefs.
LtcRefs == [spent : BOOLEAN, value : {150000000}, confirmed : {<<1, 7>>},
            block_height : 0..2]
LtcPages == [txrefs : SeqsUpTo(LtcRefs, PageLimit), hasMore : BOOLEAN]

\* etherscan txlist: one entry of json.result.  `value` is a string of
\* digits counting wei: nothing, or one ether and one wei.
EthValues ==
    { <<0>>,
      <<1, 0, 0, 0, 0, 0, 0, 0, 0, 0, 0, 0, 0, 0, 0, 0, 0, 0, 1>> }

EthEntries(address) ==
    [from : {address, "x"}, to : {address, "x"}, value : EthValues,
     timeStamp : {86400}]
EthPages(address) == [result : SeqsUpTo(EthEntries(address), PageLimit)]

----------------------------------------------------------------------------
(* Transaction                                                             *)

\* `sender` is not a field of the program's object: it records, for the
\* entries whose upstream record names one, who sent the transfer.
\* The price lookup a transaction has sent: getCoinbasePrice(date, code).
NoLookup == [code |-> "", date |-> -1]
GetPrice(txn) == [code |-> CoinCode(txn.coin), date |-> txn.date]

Transaction(coin, address, realAmount, timestamp, date, sender) ==
    [coin |-> coin, address |-> address, realAmount |-> realAmount,
     timestamp |-> timestamp, date |-> date, sender |-> sender,
     price |-> Undefined, amount |-> Undefined,
     valueWhenReceived |-> Undefined, value |-> Undefined,
     lookup |-> "none", asked |-> NoLookup]

AddPriceData(txn, coin, price) ==
    LET amount == Div(txn.realAmount, FactorExp(coin))
    IN  [txn EXCEPT !.price = price, !.amount = amount,
                    !.valueWhenReceived = Mul(price, amount)]

\* Days since the epoch stand for the formatted UTC date.
SecondsPerDay == 86400
GetDateFromSeconds(seconds) == seconds \div SecondsPerDay

\* An ISO timestamp is <<day, second of the day>>; its first ten characters
\* are the day.
Substring10(timestamp) == timestamp[1]

----------------------------------------------------------------------------
(* Result records                                                          *)

NoResult ==
    [price |-> Undefined, amount |-> Undefined, value |-> Undefined,
     valueWhenReceived |-> Undefined]

RECURSIVE SumAmount(_)
SumAmount(txns) ==
    IF txns = <<>> THEN Num(0)
    ELSE Add(SumAmount(SubSeq(txns, 1, Len(txns) - 1)), txns[Len(txns)].amount)

RECURSIVE SumValueWhenReceived(_)
SumValueWhenReceived(txns) ==
    IF txns = <<>> THEN Num(0)
    ELSE Add(SumValueWhenReceived(SubSeq(txns, 1, Len(txns) - 1)),
             txns[Len(txns)].valueWhenReceived)

\* Faulty variant: only the first transaction's value is counted.
SumValueFirst(txns) == IF txns = <<>> THEN Num(0) ELSE txns[1].value

RECURSIVE SumValue(_)
SumValue(txns) ==
    IF txns = <<>> THEN Num(0)
    ELSE Add(SumValue(SubSeq(txns, 1, Len(txns) - 1)), txns[Len(txns)].value)

\* Faulty variant: a transaction's `value` left by an earlier call is added
\* to instead of overwritten.
BuildResultAccumulating(G, price) ==
    LET txns == [i \in 1..Len(G.data) |->
                    [G.data[i] EXCEPT
                        !.value = IF @.k = "num"
                                  THEN Add(@, Mul(price, G.data[i].amount))
                                  ELSE Mul(price, G.data[i].amount)]]
    IN  [G EXCEPT !.pc = "built", !.data = txns,
                  !.result = [price |-> price,
                              amount |-> SumAmount(txns),
                              value |-> SumValue(txns),
                              valueWhenReceived |-> SumValueWhenReceived(txns)]]

\* The group after _buildResult resumed with the current price: the
\* transactions get their `value`, the record its totals.  result.txns is
\* the group's data.
BuildResult(G, price) ==
    LET txns == [i \in 1..Len(G.data) |->
                    [G.data[i] EXCEPT !.value = Mul(price, G.data[i].amount)]]
    IN  [G EXCEPT !.pc = "built", !.data = txns,
                  !.result = [price |-> price,
                              amount |-> SumAmount(txns),
                              value |-> SumValue(txns),
                              valueWhenReceived |-> SumValueWhenReceived(txns)]]

----------------------------------------------------------------------------
(* Requests and the promise plumbing                                       *)

\* One page request, as its URL parameters: `cursor` says whether the URL
\* carries an offset/before parameter, `at` its value.
Request(cursor, at) == [cursor |-> cursor, at |-> at]

BitcoinUrl(offset) == Request(TRUE, offset)
LitecoinUrl(offset) ==
    IF offset > 0 THEN Request(TRUE, offset) ELSE Request(FALSE, 0)
EthereumUrl == Request(FALSE, 0)

FirstUrl(coin) ==
    CASE coin = "bitcoin" -> BitcoinUrl(0)
      [] coin = "litecoin" -> LitecoinUrl(0)
      [] coin = "ethereum" -> EthereumUrl

\* `answered` counts the page responses a fetch has handled, `received`
\* the entries the pages of an offset-counted fetch carried, and `waited`
\* tells whether _buildResult had to suspend at `await pricePromise`; none
\* is a variable of the program.
\* What the last response page looked like, kept for stating the claims:
\* the total and the flag it reported and, for a page that announced more,
\* the block height of its last entry and the largest of its block heights.
Page(n_tx, hasMore, lastHeight, maxHeight) ==
    [n_tx |-> n_tx, hasMore |-> hasMore,
     lastHeight |-> lastHeight, maxHeight |-> maxHeight]

NoPage == Page(0, FALSE, -1, -1)

\* _getTaxableEvents(addressOrAddresses, ...) up to its first suspension:
\* _getTransactions has issued the first page request.
NewGroup(coin, addr) ==
    [coin |-> coin, addr |-> addr, pc |-> "fetch", offset |-> 0,
     data |-> <<>>, reqs |-> <<FirstUrl(coin)>>, answered |-> 0,
     received |-> 0, waited |-> FALSE,
     last |-> NoPage, result |-> NoResult, table |-> "same"]

\* The promises one coin contributes: one for the whole address array of a
\* multi-address coin, else one per address.
GetTaxableEventPromises(coin, addresses) ==
    IF MultiAddr(coin) THEN <<NewGroup(coin, addresses)>>
    ELSE [i \in 1..Len(addresses) |-> NewGroup(coin, <<addresses[i]>>)]

\* The requests getTaxableEventPromises sends for one coin, in order: the
\* current-price request, then the first page request of each group.
SentRequest(kind, coin, addr) == [kind |-> kind, coin |-> coin, addr |-> addr]

IssuedBy(coin, addresses) ==
    <<SentRequest("price", coin, <<>>)>>
    \o [i \in 1..Len(GetTaxableEventPromises(coin, addresses)) |->
           SentRequest("page", coin,
                       GetTaxableEventPromises(coin, addresses)[i].addr)]

\* Object.keys(config.addresses).map(...): coin after coin, in key order.
RECURSIVE Issued(_)
Issued(cfg) ==
    IF cfg = <<>> THEN <<>>
    ELSE Issued(SubSeq(cfg, 1, Len(cfg) - 1))
         \o IssuedBy(cfg[Len(cfg)].coin, cfg[Len(cfg)].addresses)

\* [].concat(...promises)
RECURSIVE Flatten(_)
Flatten(cfg) ==
    IF cfg = <<>> THEN <<>>
    ELSE Flatten(SubSeq(cfg, 1, Len(cfg) - 1))
         \o GetTaxableEventPromises(cfg[Len(cfg)].coin, cfg[Len(cfg)].addresses)

ConfiguredCoins(cfg) == {cfg[i].coin : i \in 1..Len(cfg)}

\* Faulty variant: the join resolves with the first settled lookup
\* (Promise.race in place of Promise.all).
AnySettled(txns) ==
    txns = <<>> \/ \E i \in 1..Len(txns) : txns[i].lookup # "pending"

\* Promise.all(txnPromises) has resolved.
AllSettled(txns) == \A i \in 1..Len(txns) : txns[i].lookup # "pending"

\* Faulty variant: an empty transfer list is treated like a failed fetch.
ResolvedEmptyFails(G) ==
    IF G.data = <<>> THEN [G EXCEPT !.pc = "rejected"]
    ELSE [G EXCEPT !.pc = "prices",
                   !.data = [i \in 1..Len(G.data) |->
                                [G.data[i] EXCEPT !.lookup = "pending",
                                                  !.asked = GetPrice(G.data[i])]]]

\* _getTransactions resolved with `data`: every transaction's getPrice is
\* called (one price request each), and Promise.all waits for them.
Resolved(G) ==
    [G EXCEPT !.pc = "prices",
              !.data = [i \in 1..Len(G.data) |->
                           [G.data[i] EXCEPT !.lookup = "pending",
                                             !.asked = GetPrice(G.data[i])]]]

\* Faulty variant: _buildResult reads the current price without awaiting
\* the promise.
AdvanceNoAwait(G, pp) ==
    LET A == IF G.pc = "prices" /\ AllSettled(G.data)
             THEN [G EXCEPT !.pc = "await",
                            !.waited = pp[G.coin].st # "settled"]
             ELSE G
    IN  IF A.pc = "await" THEN BuildResult(A, pp[A.coin].v) ELSE A

\* The reactions that run without further input: Promise.all over the
\* price lookups resolves, _buildResult awaits the current price.
Advance(G, pp) ==
    LET A == IF G.pc = "prices" /\ AllSettled(G.data)
             THEN [G EXCEPT !.pc = "await",
                            !.waited = pp[G.coin].st # "settled"]
             ELSE G
    IN  IF A.pc = "await" /\ pp[A.coin].st = "settled"
        THEN BuildResult(A, pp[A.coin].v) ELSE A

AdvanceAll(gs, pp) == [i \in 1..Len(gs) |-> Advance(gs[i], pp)]

ReportRow(G, txn) ==
    [name |-> CoinName(G.coin), code |-> CoinCode(G.coin), date |-> txn.date,
     price |-> txn.price, amount |-> txn.amount,
     valueWhenReceived |-> txn.valueWhenReceived, address |-> txn.address]

\* Faulty variant: only the last record's transactions are printed.
PrintRowsLastRecord(gs) ==
    IF gs = <<>> THEN <<>>
    ELSE LET G == gs[Len(gs)]
         IN  [i \in 1..Len(G.data) |-> ReportRow(G, G.data[i])]

RECURSIVE PrintRows(_)
PrintRows(gs) ==
    IF gs = <<>> THEN <<>>
    ELSE LET G == gs[Len(gs)]
         IN  PrintRows(SubSeq(gs, 1, Len(gs) - 1))
             \o [i \in 1..Len(G.data) |-> ReportRow(G, G.data[i])]

Header == "Coin,Code,Date,Price,Amount,Value When Received,Address,Transaction"

\* `records` is results.length, the number of result records handed over.
PrintResults(gs) ==
    [header |-> Header, records |-> Len(gs), rows |-> PrintRows(gs)]

\* Promise.all(promises): rejects with the first rejection, resolves when
\* every promise has resolved.
JoinState(gs, r) ==
    IF r # "pending" THEN r
    ELSE IF \E i \in 1..Len(gs) : gs[i].pc = "rejected" THEN "failed"
    ELSE IF \A i \in 1..Len(gs) : gs[i].pc = "built" THEN "reported"
    ELSE "pending"

\* The state after an event-loop turn that left the groups as gs and the
\* current-price promises as pp.
Turn(gs, pp) ==
    LET next == AdvanceAll(gs, pp)
    IN  /\ groups' = next
        /\ pricePromise' = pp
        /\ run' = JoinState(next, run)
        /\ report' = IF run = "pending" /\ JoinState(next, run) = "reported"
                     THEN PrintResults(next) ELSE report
        /\ UNCHANGED <<config, started, source, issued, served>>

----------------------------------------------------------------------------
(* The top-level script                                                    *)

Init ==
    /\ config \in Configs
    /\ source \in SourcesFor(config)
    /\ started = FALSE
    /\ issued = <<>>
    /\ served = NoUpstream
    /\ groups = <<>>
    /\ pricePromise = [c \in Coins |-> [st |-> "none", v |-> Undefined]]
    /\ run = "pending"
    /\ report = [header |-> "", records |-> 0, rows |-> <<>>]

Main ==
    /\ ~started
    /\ started' = TRUE
    /\ issued' = Issued(config)
    /\ LET gs == Flatten(config)
           pp == [c \in Coins |->
                     IF c \in ConfiguredCoins(config)
                     THEN [st |-> "pending", v |-> Undefined]
                     ELSE pricePromise[c]]
       IN  /\ groups' = gs
           /\ pricePromise' = pp
           /\ run' = JoinState(gs, run)
           /\ report' = IF JoinState(gs, run) = "reported"
                        THEN PrintResults(gs) ELSE report
    /\ UNCHANGED <<config, source, served>>

----------------------------------------------------------------------------
(* The table-driven variant, run beside the class-based program            *)
(*                                                                         *)
(* Each group carries in `table` where the variant's pipeline for the same *)
(* addresses stands after the same responses: "same" while it holds what   *)
(* the class-based fetch holds, "shifted" once its recursive call has      *)
(* passed (addresses, data, next) into the parameters (coin, addresses,    *)
(* data), leaving offset at its default, and "void" once getTaxableIncome  *)
(* has caught an error and resolved to undefined.                          *)

\* getTaxableIncome: every error of the pipeline ends in .catch(console.log).
GetTaxableIncomeCaught == "void"

\* getBitcoinTransactions, handler of one page.  In the shifted call `data`
\* is a number: a kept entry fails at data.push, a further call fails at
\* addresses.join, and the number returned fails at txns.map.
GetBitcoinTransactions(table, json, offset) ==
    IF table = "same"
    THEN (IF json.n_tx > offset + Len(json.txs) THEN "shifted" ELSE "same")
    ELSE IF table = "shifted"
    THEN (IF \E i \in 1..Len(json.txs) : json.txs[i].result > 0
          THEN GetTaxableIncomeCaught
          ELSE IF json.n_tx > 0 + Len(json.txs)
          THEN GetTaxableIncomeCaught
          ELSE GetTaxableIncomeCaught)
    ELSE table

\* getLitecoinTransactions, handler of one page.  In the shifted call
\* `data` is a number: an unspent reference fails at data.push, the number
\* returned fails at txns.map, and a further call is shifted again.
GetLitecoinTransactions(table, json) ==
    IF table = "same"
    THEN (IF json.hasMore THEN "shifted" ELSE "same")
    ELSE IF table = "shifted"
    THEN (IF \E i \in 1..Len(json.txrefs) : json.txrefs[i].spent = FALSE
          THEN GetTaxableIncomeCaught
          ELSE IF json.hasMore THEN "shifted"
          ELSE GetTaxableIncomeCaught)
    ELSE table

\* What a pipeline hands to Promise.all: a result record, or nothing of use
\* (the variant's undefined, the class-based program's rejection).
NoRecord == [built |-> FALSE, result |-> NoResult, txns |-> <<>>]
Record(G) == [built |-> TRUE, result |-> G.result, txns |-> G.data]

\* The variant's pipelines take the steps of the class-based ones while
\* they are "same", so a "same" group is built when the class-based one is.
TableSettled(gs) ==
    \A g \in 1..Len(gs) : gs[g].table = "void" \/ gs[g].pc = "built"

TableRecords(gs) ==
    [g \in 1..Len(gs) |->
        IF gs[g].table = "same" /\ gs[g].pc = "built" THEN Record(gs[g])
        ELSE NoRecord]

ClassRecords(gs) ==
    [g \in 1..Len(gs) |-> IF gs[g].pc = "built" THEN Record(gs[g]) ELSE NoRecord]

\* The variant's Promise.all never rejects; its printResults prints the
\* header and the rows of the records before the first undefined one, where
\* reading crypto.txns throws.
TablePrintResults(gs) ==
    LET voids == {g \in 1..Len(gs) : gs[g].table = "void"}
        upTo == IF voids = {} THEN Len(gs)
                ELSE (CHOOSE g \in voids : \A h \in voids : g <= h) - 1
    IN  [header |-> Header, records |-> Len(gs),
         rows |-> PrintRows(SubSeq(gs, 1, upTo))]

----------------------------------------------------------------------------
(* The fetchers                                                            *)

Replace(gs, g, G) == [gs EXCEPT ![g] = G]

\* Faulty variant: the entries of a page go in front of those of the pages
\* before it.
PushFront(data, txs) == txs \o data

\* data.push(tx), for the transactions made from one page in turn.
Push(data, txs) == data \o txs

\* Faulty variant: every fetch pushes to one array, made once.
AccumulatorShared(gs, g) == gs[1].data

\* The `data` array of group g's fetch: the default `data = []` is
\* evaluated anew for every first call and handed on to the recursive ones.
Accumulator(gs, g) == gs[g].data

RECURSIVE MaxHeight(_)
MaxHeight(refs) ==
    IF refs = <<>> THEN -1
    ELSE LET m == MaxHeight(SubSeq(refs, 1, Len(refs) - 1))
             h == refs[Len(refs)].block_height
         IN  IF h > m THEN h ELSE m

LastHeight(refs) ==
    IF refs = <<>> THEN -1 ELSE refs[Len(refs)].block_height

\* Bitcoin._getTransactions: the handler of one multiaddr page.
BitcoinKeep(tx) == tx.result > 0

BitcoinData(json) ==
    LET kept == SelectSeq(json.txs, BitcoinKeep)
    IN  [i \in 1..Len(kept) |->
            Transaction("bitcoin", kept[i].addr, Num(kept[i].result), <<kept[i].time>>,
                        GetDateFromSeconds(kept[i].time), "")]

\* Faulty variant: the next offset forgets the pages before this one.
BitcoinProcessedNoOffset(json, offset) == Len(json.txs)

BitcoinProcessed(json, offset) == offset + Len(json.txs)

BitcoinMore(json, offset) == json.n_tx > BitcoinProcessed(json, offset)

BitcoinResponse(g, json) ==
    /\ started /\ g \in 1..Len(groups)
    /\ groups[g].coin = "bitcoin" /\ groups[g].pc = "fetch"
    /\ LET G == groups[g]
           data == Push(Accumulator(groups, g), BitcoinData(json))
           txProcessed == BitcoinProcessed(json, G.offset)
           more == BitcoinMore(json, G.offset)
           seen == [G EXCEPT !.data = data,
                             !.answered = @ + 1,
                             !.received = @ + Len(json.txs),
                             !.table = GetBitcoinTransactions(@, json, G.offset),
                             !.last = Page(json.n_tx, FALSE, -1, -1)]
       IN  /\ Len(data) <= TxnLimit
           /\ more => Len(G.reqs) < RequestLimit
           /\ Turn(Replace(groups, g,
                     IF more
                     THEN [seen EXCEPT !.offset = txProcessed,
                                       !.reqs = Append(@, BitcoinUrl(txProcessed))]
                     ELSE Resolved(seen)),
                   pricePromise)

\* Litecoin._getTransactions: the handler of one page of txrefs.
\* Faulty variant: spent references are kept as well.
LitecoinKeepAll(ref) == ref.spent \in BOOLEAN

LitecoinKeep(ref) == ref.spent = FALSE

LitecoinData(json, address) ==
    LET kept == SelectSeq(json.txrefs, LitecoinKeep)
    IN  [i \in 1..Len(kept) |->
            Transaction("litecoin", address, Num(kept[i].value), kept[i].confirmed,
                        Substring10(kept[i].confirmed), "")]

\* Faulty variant: the cursor is the largest block height of the page.
LitecoinLastBlockMax(json) == MaxHeight(json.txrefs)

LitecoinLastBlock(json) ==
    IF json.txrefs = <<>> THEN -1
    ELSE json.txrefs[Len(json.txrefs)].block_height

LitecoinMore(json) == json.hasMore

LitecoinResponse(g, json) ==
    /\ started /\ g \in 1..Len(groups)
    /\ groups[g].coin = "litecoin" /\ groups[g].pc = "fetch"
    /\ LET G == groups[g]
           data == Push(Accumulator(groups, g), LitecoinData(json, G.addr[1]))
           lastBlock == LitecoinLastBlock(json)
           more == LitecoinMore(json)
           seen == [G EXCEPT !.data = data,
                             !.answered = @ + 1,
                             !.table = GetLitecoinTransactions(@, json),
                             !.last = IF json.hasMore
                                      THEN Page(0, TRUE, LastHeight(json.txrefs),
                                                MaxHeight(json.txrefs))
                                      ELSE NoPage]
       IN  /\ Len(data) <= TxnLimit
           /\ more => Len(G.reqs) < RequestLimit
           /\ Turn(Replace(groups, g,
                     IF more
                     THEN [seen EXCEPT !.offset = lastBlock,
                                       !.reqs = Append(@, LitecoinUrl(lastBlock))]
                     ELSE Resolved(seen)),
                   pricePromise)

\* Ethereum._getTransactions: the handler of the one txlist response.
EthereumKeep(entry, address) == entry.to = address

EthereumData(json, address) ==
    LET kept == SelectSeq(json.result, LAMBDA e : EthereumKeep(e, address))
    IN  [i \in 1..Len(kept) |->
            Transaction("ethereum", address, Str(kept[i].value), <<kept[i].timeStamp>>,
                        GetDateFromSeconds(kept[i].timeStamp), kept[i].from)]

\* Faulty variant: a full page is taken to mean that more pages follow.
EthereumMorePaged(json) == Len(json.result) >= PageSize

EthereumMore(json) == FALSE

EthereumResponse(g, json) ==
    /\ started /\ g \in 1..Len(groups)
    /\ groups[g].coin = "ethereum" /\ groups[g].pc = "fetch"
    /\ LET G == groups[g]
           data == EthereumData(json, G.addr[1])
           more == EthereumMore(json)
           seen == [G EXCEPT !.data = data,
                             !.answered = @ + 1,
                             !.last = Page(0, FALSE, -1, -1)]
       IN  /\ Len(data) <= TxnLimit
           /\ more => Len(G.reqs) < RequestLimit
           /\ Turn(Replace(groups, g,
                     IF more
                     THEN [seen EXCEPT !.reqs = Append(@, EthereumUrl)]
                     ELSE Resolved(seen)),
                   pricePromise)

\* A page request fails (transport, decode, or a response without the
\* fields the handler reads): .catch(console.log) turns the failure into
\* `undefined`, and `txns.map` in _getTaxableEvents throws on it.
FetchFailure(g) ==
    /\ started /\ g \in 1..Len(groups)
    /\ groups[g].pc = "fetch"
    /\ Turn(Replace(groups, g, [groups[g] EXCEPT !.pc = "rejected",
                                                 !.table = GetTaxableIncomeCaught]),
            pricePromise)

----------------------------------------------------------------------------
(* The Bitcoin fetch against a fixed upstream.  The arrival of a response  *)
(* and the run of its handler are separate steps here, and the log of      *)
(* requests is not kept: a fetch that never ends would fill it without     *)
(* bound.                                                                  *)

\* The upstream answers the outstanding request.
FixedAnswer(g) ==
    /\ started /\ g \in 1..Len(groups)
    /\ groups[g].coin = "bitcoin" /\ groups[g].pc = "fetch"
    /\ groups' = Replace(groups, g, [groups[g] EXCEPT !.pc = "page"])
    /\ UNCHANGED <<config, started, pricePromise, source, issued, served,
                   run, report>>

\* Bitcoin._getTransactions: the handler runs on the page the upstream
\* serves at the request's offset.
FixedHandle(g) ==
    /\ started /\ g \in 1..Len(groups)
    /\ groups[g].coin = "bitcoin" /\ groups[g].pc = "page"
    /\ LET G == groups[g]
           json == [txs |-> served.pages[G.offset], n_tx |-> served.n_tx]
           data == Push(Accumulator(groups, g), BitcoinData(json))
           txProcessed == BitcoinProcessed(json, G.offset)
           seen == [G EXCEPT !.data = data,
                             !.table = GetBitcoinTransactions(@, json, G.offset),
                             !.last = Page(json.n_tx, FALSE, -1, -1)]
       IN  Turn(Replace(groups, g,
                  IF BitcoinMore(json, G.offset)
                  THEN [seen EXCEPT !.pc = "fetch", !.offset = txProcessed]
                  ELSE Resolved(seen)),
                pricePromise)

FixedInit ==
    /\ config = <<Entry("bitcoin", <<"b1", "b2">>)>>
    /\ source = "fixed"
    /\ served \in FixedUpstreams
    /\ started = FALSE
    /\ issued = <<>>
    /\ groups = <<>>
    /\ pricePromise = [c \in Coins |-> [st |-> "none", v |-> Undefined]]
    /\ run = "pending"
    /\ report = [header |-> "", records |-> 0, rows |-> <<>>]

FixedNext ==
    \/ Main
    \/ \E g \in 1..Len(groups) : FixedAnswer(g)
    \/ \E g \in 1..Len(groups) : FixedHandle(g)

\* The script runs, the upstream answers every request, and the event loop
\* runs every handler that is due.
FixedSpec ==
    /\ FixedInit /\ [][FixedNext]_vars
    /\ WF_vars(Main)
    /\ WF_vars(\E g \in 1..Len(groups) : FixedAnswer(g))
    /\ WF_vars(\E g \in 1..Len(groups) : FixedHandle(g))

----------------------------------------------------------------------------
(* The cursor-paginated fetch against a logged upstream                    *)

\* The txrefs the logged upstream serves: an unspent reference, a spent one
\* and another unspent one, told apart by their values and block heights.
CursorRefs ==
    {[spent |-> FALSE, value |-> 100000000, confirmed |-> <<1, 7>>, block_height |-> 2],
     [spent |-> TRUE,  value |-> 200000000, confirmed |-> <<1, 7>>, block_height |-> 1],
     [spent |-> FALSE, value |-> 300000000, confirmed |-> <<1, 7>>, block_height |-> 0]}
CursorUpstream == [txrefs : SeqsUpTo(CursorRefs, PageSize), hasMore : BOOLEAN]

\* Litecoin._getTransactions: the handler of one page, with the page it
\* was given written to the log `served.pages`.
CursorHandle(g, json) ==
    /\ started /\ g \in 1..Len(groups)
    /\ groups[g].coin = "litecoin" /\ groups[g].pc = "fetch"
    /\ Len(served.pages) < CursorPages
    /\ LET G == groups[g]
           data == Push(Accumulator(groups, g), LitecoinData(json, G.addr[1]))
           lastBlock == LitecoinLastBlock(json)
           seen == [G EXCEPT !.data = data, !.answered = @ + 1,
                             !.table = GetLitecoinTransactions(@, json)]
       IN  /\ groups' = Replace(groups, g,
                            IF LitecoinMore(json)
                            THEN [seen EXCEPT !.offset = lastBlock,
                                              !.reqs = Append(@, LitecoinUrl(lastBlock))]
                            ELSE Resolved(seen))
           /\ served' = [served EXCEPT !.pages = Append(@, json)]
           /\ UNCHANGED <<config, started, pricePromise, source, issued, run, report>>

CursorInit ==
    /\ config = <<Entry("litecoin", <<"l1">>)>>
    /\ source = "logged"
    /\ served = NoUpstream
    /\ started = FALSE
    /\ issued = <<>>
    /\ groups = <<>>
    /\ pricePromise = [c \in Coins |-> [st |-> "none", v |-> Undefined]]
    /\ run = "pending"
    /\ report = [header |-> "", records |-> 0, rows |-> <<>>]

CursorNext ==
    \/ Main
    \/ \E g \in 1..Len(groups) : \E json \in CursorUpstream : CursorHandle(g, json)

CursorSpec == CursorInit /\ [][CursorNext]_vars

----------------------------------------------------------------------------
(* The price service                                                       *)

\* Transaction.getPrice: the historical price arrives.
\* Faulty variant: the price that arrives is given to the first transaction
\* of the group still waiting, whichever lookup it answers.
PriceResponseFirstWaiting(g, i, price) ==
    /\ started /\ g \in 1..Len(groups) /\ i \in 1..Len(groups[g].data)
    /\ groups[g].data[i].lookup = "pending"
    /\ LET G == groups[g]
           j == CHOOSE k \in 1..Len(G.data) :
                    /\ G.data[k].lookup = "pending"
                    /\ \A l \in 1..(k - 1) : G.data[l].lookup # "pending"
           txn == [AddPriceData(G.data[j], G.coin, price) EXCEPT !.lookup = "ok"]
       IN  Turn(Replace(groups, g, [G EXCEPT !.data[j] = txn]), pricePromise)

\* Faulty variant: the transactions of a group are kept in the order in
\* which their lookups were answered.
PriceResponseAsCompleted(g, i, price) ==
    /\ started /\ g \in 1..Len(groups) /\ i \in 1..Len(groups[g].data)
    /\ groups[g].data[i].lookup = "pending"
    /\ LET G == groups[g]
           txn == [AddPriceData(G.data[i], G.coin, price) EXCEPT !.lookup = "ok"]
           others == SubSeq(G.data, 1, i - 1) \o SubSeq(G.data, i + 1, Len(G.data))
           answered == SelectSeq(others, LAMBDA t : t.lookup # "pending")
           waiting == SelectSeq(others, LAMBDA t : t.lookup = "pending")
       IN  Turn(Replace(groups, g, [G EXCEPT !.data = answered \o <<txn>> \o waiting]),
                pricePromise)

\* The answer to the lookup transaction i of group g sent arrives:
\* getPrice's .then hands it to that transaction's _addPriceData.
PriceResponse(g, i, price) ==
    /\ started /\ g \in 1..Len(groups) /\ i \in 1..Len(groups[g].data)
    /\ groups[g].data[i].lookup = "pending"
    /\ LET G == groups[g]
           txn == [AddPriceData(G.data[i], G.coin, price) EXCEPT !.lookup = "ok"]
       IN  Turn(Replace(groups, g, [G EXCEPT !.data[i] = txn]), pricePromise)

\* Faulty variant: a failed lookup rejects the group's promise.
PriceFailureRejects(g, i) ==
    /\ started /\ g \in 1..Len(groups) /\ i \in 1..Len(groups[g].data)
    /\ groups[g].data[i].lookup = "pending"
    /\ Turn(Replace(groups, g, [groups[g] EXCEPT !.pc = "rejected"]),
            pricePromise)

\* getCoinbasePrice fails: its .catch(console.log) resolves to undefined,
\* which getPrice hands to _addPriceData like a price.
PriceFailure(g, i) ==
    /\ started /\ g \in 1..Len(groups) /\ i \in 1..Len(groups[g].data)
    /\ groups[g].data[i].lookup = "pending"
    /\ LET G == groups[g]
           txn == [AddPriceData(G.data[i], G.coin, Undefined)
                       EXCEPT !.lookup = "failed"]
       IN  Turn(Replace(groups, g, [G EXCEPT !.data[i] = txn]), pricePromise)

\* getCurrentCoinbasePrice: the current price of a coin arrives.
CurrentPriceResponse(c, price) ==
    /\ started /\ pricePromise[c].st = "pending"
    /\ Turn(groups, [pricePromise EXCEPT ![c] = [st |-> "settled", v |-> price]])

CurrentPriceFailure(c) ==
    /\ started /\ pricePromise[c].st = "pending"
    /\ Turn(groups,
            [pricePromise EXCEPT ![c] = [st |-> "settled", v |-> Undefined]])

----------------------------------------------------------------------------

Next ==
    \/ Main
    \/ \E g \in 1..Len(groups) : \E json \in BtcPages(groups[g].offset) :
          BitcoinResponse(g, json)
    \/ \E g \in 1..Len(groups) : \E json \in LtcPages : LitecoinResponse(g, json)
    \/ \E g \in 1..Len(groups) :
          \E json \in EthPages(groups[g].addr[1]) : EthereumResponse(g, json)
    \/ \E g \in 1..Len(groups) : FetchFailure(g)
    \/ \E g \in 1..Len(groups) : \E i \in 1..Len(groups[g].data) :
          /\ groups[g].data[i].lookup = "pending"
          /\ \E price \in {SpotPrice(groups[g].data[i].asked.code,
                                      groups[g].data[i].asked.date)} :
                 PriceResponse(g, i, price)
    \/ \E g \in 1..Len(groups) : \E i \in 1..Len(groups[g].data) :
          PriceFailure(g, i)
    \/ \E c \in Coins : \E price \in Prices : CurrentPriceResponse(c, price)
    \/ \E c \in Coins : CurrentPriceFailure(c)

Spec == Init /\ [][Next]_vars

----------------------------------------------------------------------------
(* Properties                                                              *)

Groups == 1..Len(groups)
Settled(G) == G.pc \in {"built", "rejected"}
FetchResolved(G) == G.pc \in {"prices", "await", "built"}
IsBuilt(G) == G.pc = "built"
Zero == Num(0)

\* C1: when the fetch of one address group fails while the others succeed,
\* the run still completes, the records of the other groups are reported
\* and only the failing group's record is missing.
C1_FailedGroupOnlyOmitted ==
    (/\ started
     /\ \A g \in Groups : Settled(groups[g])
     /\ \E g \in Groups : groups[g].pc = "rejected"
     /\ \E g \in Groups : groups[g].pc = "built")
    => /\ run = "reported"
       /\ report.header = Header
       /\ report.rows = PrintRows(SelectSeq(groups, IsBuilt))

\* C2: a transfer whose historical price lookup failed is absent from the
\* transaction list of its result record and adds to none of the totals.
C2_FailedLookupExcluded ==
    \A g \in Groups :
        groups[g].pc = "built" =>
            LET G == groups[g]
                ok == SelectSeq(G.data, LAMBDA t : t.lookup = "ok")
            IN  /\ \A i \in 1..Len(G.data) : G.data[i].lookup # "failed"
                /\ G.result.amount = SumAmount(ok)
                /\ G.result.valueWhenReceived = SumValueWhenReceived(ok)

\* C3: the Bitcoin fetch asks first at offset 0, asks every later page at
\* the number of entries received so far, goes on only while that number is
\* less than the total the last page reported, and stops at the first page
\* after which it is not.
C3_OffsetPagination ==
    \A g \in Groups :
        groups[g].coin = "bitcoin" =>
            LET G == groups[g]
                n == Len(G.reqs)
            IN  /\ G.reqs[1] = Request(TRUE, 0)
                /\ \A k \in 1..n : G.reqs[k].cursor
                /\ \A k \in 1..(n - 1) : G.reqs[k].at <= G.reqs[k + 1].at
                /\ G.pc = "fetch" => G.reqs[n].at = G.received
                /\ (G.pc = "fetch" /\ n > 1) => G.received < G.last.n_tx
                /\ FetchResolved(G) => G.last.n_tx <= G.received
                /\ FetchResolved(G) => G.answered = n

\* A total of 2 * PageSize + 1 served in pages of PageSize: three requests,
\* at offsets 0, PageSize and 2 * PageSize.
C3_ThreeRequests ==
    \E g \in Groups :
        /\ groups[g].coin = "bitcoin" /\ FetchResolved(groups[g])
        /\ groups[g].last.n_tx = 2 * PageSize + 1
        /\ groups[g].received = 2 * PageSize + 1
        /\ groups[g].reqs = <<Request(TRUE, 0), Request(TRUE, PageSize),
                              Request(TRUE, 2 * PageSize)>>

\* C4 as stated: every continuation request of the Litecoin fetch carries
\* as `before` the largest block height of the page before it.
C4_CursorIsMaxHeight ==
    \A g \in Groups :
        (/\ groups[g].coin = "litecoin" /\ groups[g].pc = "fetch"
         /\ Len(groups[g].reqs) > 1 /\ groups[g].last.maxHeight > 0)
        => groups[g].reqs[Len(groups[g].reqs)]
               = Request(TRUE, groups[g].last.maxHeight)

\* C4 amended: the Litecoin fetch issues a further request exactly when the
\* page before it has hasMore set; that request carries as `before` the
\* block height of the last transfer reference of that page when it is
\* positive, and no cursor when the page is empty or the height is not
\* positive; the first request carries no cursor.
C4_CursorIsLastHeight ==
    \A g \in Groups :
        groups[g].coin = "litecoin" =>
            LET G == groups[g]
                n == Len(G.reqs)
            IN  /\ G.reqs[1] = Request(FALSE, 0)
                /\ (G.pc = "fetch" /\ n > 1) =>
                       /\ G.last.hasMore
                       /\ G.reqs[n] = IF G.last.lastHeight > 0
                                      THEN Request(TRUE, G.last.lastHeight)
                                      ELSE Request(FALSE, 0)
                /\ FetchResolved(G) => (~G.last.hasMore /\ G.answered = n)
                /\ G.pc = "fetch" => G.answered = n - 1

\* Two pages, the second without hasMore: two requests, the second with the
\* height of the first page's last reference, which is not its largest.
C4_TwoPages ==
    \E g \in Groups :
        /\ groups[g].coin = "litecoin" /\ FetchResolved(groups[g])
        /\ Len(groups[g].reqs) = 2
        /\ groups[g].reqs[2].cursor
        /\ groups[g].answered = 2 /\ ~groups[g].last.hasMore

\* The second request is out, after a page whose last height is below its
\* largest.
C4_LastBelowMax ==
    \E g \in Groups :
        /\ groups[g].coin = "litecoin" /\ groups[g].pc = "fetch"
        /\ Len(groups[g].reqs) = 2
        /\ groups[g].last.lastHeight > 0
        /\ groups[g].last.lastHeight < groups[g].last.maxHeight

\* C5: the Ethereum fetch issues one request per address and no more,
\* whatever the response holds and whether the request succeeds or fails.
C5_SingleRequest ==
    \A g \in Groups :
        groups[g].coin = "ethereum" =>
            /\ Len(groups[g].reqs) = 1
            /\ groups[g].answered <= 1

\* An Ethereum page of which MaxTxns entries were kept has been handled,
\* and one request was made.
C5_FullPageHandled ==
    \E g \in Groups :
        /\ groups[g].coin = "ethereum" /\ FetchResolved(groups[g])
        /\ Len(groups[g].data) = MaxTxns
        /\ Len(groups[g].reqs) = 1

\* C6: no fetcher produces a transfer sent from the queried address (self
\* transfers included), nor a negative amount.
C6_OnlyReceived ==
    \A g \in Groups :
        \A i \in 1..Len(groups[g].data) :
            /\ groups[g].data[i].sender # groups[g].data[i].address
            /\ groups[g].data[i].realAmount.m >= 0

\* C7: a fetch whose responses hold no inbound transfer resolves to the
\* empty sequence and is not rejected (a fetch is rejected only when one of
\* its requests got no usable answer); the result record built from it has
\* an empty transaction list and all three totals 0.
C7_EmptyFetch ==
    \A g \in Groups :
        LET G == groups[g]
        IN  /\ G.pc = "rejected" => G.answered < Len(G.reqs)
            /\ G.pc = "prices" => G.data # <<>>
            /\ (G.pc = "built" /\ G.data = <<>>) =>
                   /\ G.result.amount = Zero
                   /\ G.result.value = Zero
                   /\ G.result.valueWhenReceived = Zero

\* A Litecoin result record built from a fetch that kept nothing, while the
\* current price is not available.
C7_EmptyRecordBuilt ==
    \E g \in Groups :
        /\ groups[g].coin = "litecoin" /\ groups[g].pc = "built"
        /\ groups[g].data = <<>>
        /\ groups[g].answered = Len(groups[g].reqs)
        /\ groups[g].result.price = Undefined

\* C8: a multi-address coin gets one fetch for its whole address list and
\* every other coin one fetch per address; every fetch starts with one
\* request, and a run in which all of them succeed hands over one result
\* record per address group.
C8_OneGroupPerFetch ==
    started =>
        /\ Len(groups) = CountGroups(config)
        /\ \A g \in Groups :
               /\ Len(groups[g].reqs) >= 1
               /\ \E c \in 1..Len(config) :
                      /\ config[c].coin = groups[g].coin
                      /\ IF groups[g].coin = "bitcoin"
                         THEN groups[g].addr = config[c].addresses
                         ELSE \E a \in 1..Len(config[c].addresses) :
                                  groups[g].addr = <<config[c].addresses[a]>>
        /\ run = "reported" =>
               /\ report.records = CountGroups(config)
               /\ \A g \in Groups : groups[g].pc = "built"

\* A run reported two records: one for a list of two Bitcoin addresses, one
\* for a Litecoin address.
C8_TwoRecords ==
    /\ run = "reported" /\ report.records = 2
    /\ groups[1].coin = "bitcoin" /\ Len(groups[1].addr) = 2
    /\ groups[2].coin = "litecoin"

\* C9: the result record of a group is built only after every price lookup
\* of the group has settled.
C9_BuiltAfterLookups ==
    \A g \in Groups :
        groups[g].pc \in {"await", "built"} =>
            \A i \in 1..Len(groups[g].data) :
                groups[g].data[i].lookup \in {"ok", "failed"}

\* A record built from two transfers, one lookup of which failed.
C9_BuiltFromTwo ==
    \E g \in Groups :
        /\ groups[g].pc = "built" /\ Len(groups[g].data) = 2
        /\ groups[g].data[1].lookup = "failed"
        /\ groups[g].data[2].lookup = "ok"

\* C10: the run completes only when every address group has produced its
\* record or failed.
C10_CompleteAfterAllGroups ==
    run # "pending" => \A g \in Groups : Settled(groups[g])

\* The running total the forEach of _buildResult keeps: start at `acc`, add
\* the numbers in list order.
RECURSIVE RunningTotal(_, _)
RunningTotal(acc, nums) ==
    IF nums = <<>> THEN acc ELSE RunningTotal(Add(acc, Head(nums)), Tail(nums))

\* C11: in every result record the total amount is the sum of the listed
\* transactions' converted amounts, the total valueWhenReceived the sum of
\* their valueWhenReceived, and the total value the sum of current price
\* times converted amount, over exactly the transactions of the record.
C11_TotalsAreSums ==
    \A g \in Groups :
        groups[g].pc = "built" =>
            LET G == groups[g]
                n == Len(G.data)
            IN  /\ G.result.amount
                       = RunningTotal(Zero, [i \in 1..n |-> G.data[i].amount])
                /\ G.result.valueWhenReceived
                       = RunningTotal(Zero,
                             [i \in 1..n |-> G.data[i].valueWhenReceived])
                /\ G.result.value
                       = RunningTotal(Zero,
                             [i \in 1..n |-> Mul(G.result.price, G.data[i].amount)])

\* A record over two transactions whose three totals are numbers, each
\* larger than the first transaction's share.
C11_TwoSummed ==
    \E g \in Groups :
        /\ groups[g].pc = "built" /\ Len(groups[g].data) = 2
        /\ groups[g].result.amount.k = "num"
        /\ groups[g].result.value.k = "num"
        /\ groups[g].result.valueWhenReceived.k = "num"
        /\ groups[g].result.amount # groups[g].data[1].amount
        /\ groups[g].result.value # groups[g].data[1].value
        /\ groups[g].result.valueWhenReceived
               # groups[g].data[1].valueWhenReceived

\* C12: building the result record a second time from the transactions of
\* a built record and the same current price gives the same totals (and
\* the same transactions): the first call leaves nothing behind that
\* changes the second.
C12_BuildTwiceSame ==
    \A g \in Groups :
        groups[g].pc = "built" =>
            LET again == BuildResult(groups[g], groups[g].result.price)
            IN  /\ again.result = groups[g].result
                /\ again.data = groups[g].data

\* A built Bitcoin record whose transactions carry a `value` from the
\* first call and whose total value is a number other than 0.
C12_BuiltWithValue ==
    \E g \in Groups :
        /\ groups[g].coin = "bitcoin" /\ groups[g].pc = "built"
        /\ groups[g].data # <<>>
        /\ groups[g].data[1].value.k = "num"
        /\ groups[g].result.value.k = "num"
        /\ groups[g].result.value # Zero

\* The number of transactions listed by the first n records.
RECURSIVE ListedBefore(_)
ListedBefore(n) ==
    IF n = 0 THEN 0 ELSE ListedBefore(n - 1) + Len(groups[n].data)

\* C13: the report is the header line followed by one row per transaction
\* of every result record, record by record in the order of the records,
\* so the number of rows is the sum of the lengths of the records'
\* transaction lists; nothing is printed before the run is reported.
C13_HeaderAndRows ==
    IF run = "reported"
    THEN /\ report.header = Header
         /\ report.records = Len(groups)
         /\ Len(report.rows) = ListedBefore(Len(groups))
         /\ \A g \in Groups : \A i \in 1..Len(groups[g].data) :
                LET row == report.rows[ListedBefore(g - 1) + i]
                    txn == groups[g].data[i]
                IN  /\ row.name = CoinName(groups[g].coin)
                    /\ row.code = CoinCode(groups[g].coin)
                    /\ row.date = txn.date
                    /\ row.price = txn.price
                    /\ row.amount = txn.amount
                    /\ row.valueWhenReceived = txn.valueWhenReceived
                    /\ row.address = txn.address
    ELSE report.header = "" /\ report.rows = <<>>

\* A report over two records with one transaction each: a Bitcoin row and
\* then a Litecoin row.
C13_TwoRecordsTwoRows ==
    /\ run = "reported" /\ Len(groups) = 2
    /\ Len(groups[1].data) = 1 /\ Len(groups[2].data) = 1
    /\ Len(report.rows) = 2
    /\ report.rows[1].code = "BTC" /\ report.rows[2].code = "LTC"

\* C14: no page request of an address group is issued a second time with
\* the same parameters (offset or cursor), and a fetch that failed issues
\* nothing further.
C14_NoRequestTwice ==
    \A g \in Groups :
        LET G == groups[g]
        IN  /\ \A j, k \in 1..Len(G.reqs) : j < k => G.reqs[j] # G.reqs[k]
            /\ G.pc = "rejected" => Len(G.reqs) = G.answered + 1

\* C15: the current-price request of every configured coin is sent before
\* any page request of that coin; the fetch and the per-transfer lookups of
\* a group go on while the current price is outstanding, which is waited
\* for only where the record is built; and the record is built from the
\* price the promise settled with and the group's transactions, whether
\* the price came before the lookups were done or after.
C15_CurrentPriceConcurrent ==
    started =>
        /\ \A c \in ConfiguredCoins(config) :
               \E i \in 1..Len(issued) :
                   /\ issued[i] = SentRequest("price", c, <<>>)
                   /\ \A j \in 1..Len(issued) :
                          (issued[j].kind = "page" /\ issued[j].coin = c)
                              => i < j
        /\ \A g \in Groups :
               LET G == groups[g]
                   n == Len(G.data)
               IN  /\ pricePromise[G.coin].st # "none"
                   /\ G.pc = "await" =>
                          (pricePromise[G.coin].st = "pending" /\ G.waited)
                   /\ G.pc \in {"fetch", "prices"} => ~G.waited
                   /\ G.pc = "built" =>
                          /\ pricePromise[G.coin].st = "settled"
                          /\ G.result.price = pricePromise[G.coin].v
                          /\ \A i \in 1..n :
                                 G.data[i].value
                                     = Mul(pricePromise[G.coin].v, G.data[i].amount)
                          /\ G.result.value
                                 = RunningTotal(Zero,
                                       [i \in 1..n |->
                                           Mul(pricePromise[G.coin].v,
                                               G.data[i].amount)])

\* Two Ethereum records built with the same current price: the first
\* group had finished its lookups and was waiting when the price came,
\* the second finished after it.
C15_BuiltBothOrders ==
    /\ Len(groups) = 2
    /\ groups[1].coin = "ethereum" /\ groups[2].coin = "ethereum"
    /\ groups[1].pc = "built" /\ groups[2].pc = "built"
    /\ groups[1].waited /\ ~groups[2].waited
    /\ groups[1].data # <<>> /\ groups[2].data # <<>>
    /\ groups[1].result.value.k = "num"
    /\ groups[2].result.value.k = "num"

\* C16: a failed price lookup, historical or current, rejects nothing: a
\* group is rejected only by a failed page request, a group whose lookups
\* and current price have all settled has its record built, and the run is
\* reported once every record is built.  What a failed lookup changes is
\* confined to its own transaction and record, and a failed current price
\* to the records of its coin: a record whose own lookups succeeded has
\* numbers for every price and valueWhenReceived, and a record whose
\* coin's current price arrived has numbers for every value, whatever
\* failed elsewhere.
C16_PriceFailureContained ==
    /\ run = "failed" => \E g \in Groups : groups[g].pc = "rejected"
    /\ (started /\ \A g \in Groups : groups[g].pc = "built")
           => (run = "reported" /\ report.records = Len(groups))
    /\ \A g \in Groups :
           LET G == groups[g]
               n == Len(G.data)
               ok == \A i \in 1..n : G.data[i].lookup = "ok"
           IN  /\ G.pc = "rejected" => G.answered < Len(G.reqs)
               /\ (G.pc \in {"prices", "await"} /\ AllSettled(G.data)
                      /\ pricePromise[G.coin].st = "settled") => FALSE
               /\ \A i \in 1..n :
                      G.data[i].lookup = "ok" =>
                          /\ G.data[i].price.k = "num"
                          /\ G.data[i].valueWhenReceived.k = "num"
               /\ (G.pc = "built" /\ ok) =>
                      /\ G.result.amount.k = "num"
                      /\ G.result.valueWhenReceived.k = "num"
               /\ (G.pc = "built" /\ pricePromise[G.coin].v.k = "num") =>
                      /\ G.result.value.k = "num"
                      /\ \A i \in 1..n : G.data[i].value.k = "num"

\* A reported run in which the Bitcoin record lost both its historical
\* lookup and its current price, while the Litecoin record next to it has
\* one valued transaction and numbers for all its totals.
C16_OtherCoinUntouched ==
    /\ run = "reported" /\ Len(groups) = 2 /\ Len(report.rows) = 2
    /\ groups[1].coin = "bitcoin" /\ groups[2].coin = "litecoin"
    /\ groups[1].data[1].lookup = "failed"
    /\ pricePromise["bitcoin"].v = Undefined
    /\ groups[2].data[1].lookup = "ok"
    /\ groups[2].result.valueWhenReceived.k = "num"
    /\ groups[2].result.value.k = "num"
    /\ groups[2].result.value # Zero

\* The digits of a natural number.
RECURSIVE DigitsOf(_)
DigitsOf(n) == IF n < 10 THEN <<n>> ELSE DigitsOf(n \div 10) \o <<n % 10>>

\* The raw amount of a transaction, in digits.
RawDigits(a) == IF a.k = "str" THEN Canon(a.s) ELSE DigitsOf(a.m)

\* amount * 10^fexp in digits, for an amount that is a whole number of
\* smallest units.
TimesFactor(amount, fexp) ==
    Canon(DigitsOf(amount.m) \o [i \in 1..(fexp - amount.e) |-> 0])

\* C17: for every valued transaction the converted amount times the
\* coin's factor is the raw amount, exactly, and valueWhenReceived is the
\* unit price times the converted amount; a raw amount of 150,000,000 at
\* factor 10^8 converts to 1.5.
C17_ExactConversion ==
    \A g \in Groups : \A i \in 1..Len(groups[g].data) :
        LET txn == groups[g].data[i]
            fexp == FactorExp(groups[g].coin)
        IN  txn.lookup \in {"ok", "failed"} =>
                /\ txn.amount.k = "num"
                /\ TimesFactor(txn.amount, fexp) = RawDigits(txn.realAmount)
                /\ txn.valueWhenReceived = Mul(txn.price, txn.amount)
                /\ (txn.realAmount = Num(150000000) /\ fexp = 8)
                       => txn.amount = Norm(15, 1)

\* C18: every transaction of a group's list was made by that group's own
\* fetch (it carries the group's coin and, for a single-address fetch, the
\* group's address, which no other group of the coin was asked for),
\* whatever the other groups have received meanwhile; and while it
\* fetches a group holds no more than its own pages delivered.
C18_OwnTransfersOnly ==
    \A g \in Groups :
        /\ \A i \in 1..Len(groups[g].data) :
               LET txn == groups[g].data[i]
               IN  /\ txn.coin = groups[g].coin
                   /\ ~MultiAddr(groups[g].coin) => txn.address = groups[g].addr[1]
                   /\ \A h \in Groups \ {g} :
                          /\ groups[h].coin = txn.coin =>
                                 \A a \in 1..Len(groups[h].addr) :
                                     groups[h].addr[a] # txn.address
        /\ groups[g].pc = "fetch" =>
               Len(groups[g].data) <= groups[g].answered * PageLimit

\* Two groups side by side, each holding the one transfer it fetched: the
\* Litecoin record is built while the Bitcoin group still waits for its
\* price lookup.
C18_TwoOwners ==
    /\ Len(groups) = 2
    /\ groups[1].coin = "bitcoin" /\ groups[1].pc = "prices"
    /\ Len(groups[1].data) = 1 /\ groups[1].data[1].coin = "bitcoin"
    /\ groups[2].coin = "litecoin" /\ groups[2].pc = "built"
    /\ Len(groups[2].data) = 1 /\ groups[2].data[1].address = "l1"

\* The transactions as they were before their price lookups were started.
Unpriced(txns) ==
    [i \in 1..Len(txns) |-> [txns[i] EXCEPT !.lookup = "none", !.asked = NoLookup]]

\* Every request of the group but the last has been answered, and the last
\* is outstanding exactly while the group fetches.
OnePageOutstanding ==
    \A g \in Groups :
        LET G == groups[g]
        IN  /\ G.pc = "fetch" => Len(G.reqs) = G.answered + 1
            /\ FetchResolved(G) => Len(G.reqs) = G.answered
            /\ G.pc = "rejected" => Len(G.reqs) = G.answered + 1

\* A step in which a paginating group handles a page leaves what the group
\* had accumulated in place and in order, puts the page's transfers behind
\* it, and sends at most the one request that follows the page.
PagesAppendInOrder ==
    \A g \in Groups :
        (/\ groups[g].pc = "fetch" /\ groups[g].coin # "ethereum"
         /\ groups'[g].answered = groups[g].answered + 1)
        => /\ Len(groups'[g].data) >= Len(groups[g].data)
           /\ SubSeq(Unpriced(groups'[g].data), 1, Len(groups[g].data))
                  = groups[g].data
           /\ Len(groups'[g].reqs) <= Len(groups[g].reqs) + 1
           /\ Len(groups'[g].reqs) = Len(groups[g].reqs) + 1
                  => groups'[g].pc = "fetch"

\* C19: within one fetch the request for the next page is sent only in the
\* step that handles the response of the page before it, after that
\* page's transfers were appended: at most one page request of a group is
\* outstanding at any time, and the transfers accumulate in page order.
C19_PagesInSequence == []OnePageOutstanding /\ [][PagesAppendInOrder]_vars

\* A Bitcoin fetch resolved after two pages with one transfer kept from
\* each: the first page's transfer is first in the list.
C19_TwoPagesTwoTransfers ==
    \E g \in Groups :
        /\ groups[g].coin = "bitcoin" /\ groups[g].pc = "prices"
        /\ groups[g].answered = 2 /\ Len(groups[g].reqs) = 2
        /\ groups[g].reqs[2] = Request(TRUE, 1)
        /\ Len(groups[g].data) = 2
        /\ groups[g].data[1].address = "b1" /\ groups[g].data[2].address = "x"

\* C20: the address recorded on a transaction is one the fetch that made
\* it was asked for: the queried address of a single-address fetch, a
\* member of the queried list of the Bitcoin fetch.
C20_AddressWasSearched ==
    \A g \in Groups : \A i \in 1..Len(groups[g].data) :
        \E a \in 1..Len(groups[g].addr) :
            groups[g].data[i].address = groups[g].addr[a]

\* C21: against an upstream that reports a fixed total and answers every
\* request, the Bitcoin fetch eventually completes, whether its pages are
\* full, short or empty.
C21_FetchCompletes ==
    <>(started /\ \A g \in Groups : groups[g].pc \notin {"fetch", "page"})

\* Every reference of the pages handled so far, in the order received.
RECURSIVE AllRefs(_)
AllRefs(pages) ==
    IF pages = <<>> THEN <<>>
    ELSE AllRefs(SubSeq(pages, 1, Len(pages) - 1)) \o pages[Len(pages)].txrefs

Unspent(refs) == SelectSeq(refs, LAMBDA r : r.spent = FALSE)

\* C22: the Litecoin fetch holds exactly the unspent references of the
\* pages it has handled, each once and in page order; and the request that
\* follows a page ending in a spent reference (of a positive height) carries
\* that reference's block height as its cursor.
C22_UnspentInPageOrder ==
    \A g \in Groups :
        groups[g].coin = "litecoin" =>
            LET G == groups[g]
                unspent == Unspent(AllRefs(served.pages))
            IN  /\ G.answered = Len(served.pages)
                /\ Len(G.data) = Len(unspent)
                /\ \A i \in 1..Len(G.data) :
                       /\ G.data[i].realAmount = Num(unspent[i].value)
                       /\ G.data[i].timestamp = unspent[i].confirmed
                       /\ G.data[i].address = G.addr[1]
                /\ \A k \in 1..Len(served.pages) :
                       LET refs == served.pages[k].txrefs
                       IN  (/\ served.pages[k].hasMore
                            /\ refs # <<>>
                            /\ refs[Len(refs)].spent
                            /\ refs[Len(refs)].block_height > 0)
                           => /\ Len(G.reqs) > k
                              /\ G.reqs[k + 1] = Request(TRUE, refs[Len(refs)].block_height)

\* Two pages handled: the first ends in a spent reference and the fetch went
\* on from its height; two unspent references of different values came in.
C22_SpentMovedCursor ==
    \E g \in Groups :
        /\ groups[g].coin = "litecoin" /\ groups[g].pc = "prices"
        /\ Len(served.pages) = 2
        /\ Len(served.pages[1].txrefs) = 2
        /\ served.pages[1].txrefs[2].spent
        /\ groups[g].reqs[2] = Request(TRUE, 1)
        /\ Len(groups[g].data) = 2
        /\ groups[g].data[1].realAmount # groups[g].data[2].realAmount

\* C23: a transaction whose lookup was answered holds the price the price
\* service gives for that transaction's own date and its coin's code,
\* whichever of the group's lookups was answered first; a lookup still in
\* flight asks for the transaction's own date and code.
C23_PriceOfOwnDate ==
    \A g \in Groups : \A i \in 1..Len(groups[g].data) :
        LET txn == groups[g].data[i]
        IN  /\ txn.lookup = "ok" =>
                   txn.price = SpotPrice(CoinCode(txn.coin), txn.date)
            /\ txn.lookup = "pending" =>
                   txn.asked = [code |-> CoinCode(txn.coin), date |-> txn.date]

\* Two transactions of different dates in one group; the lookup of the
\* second was answered while the lookup of the first is still in flight.
C23_SecondAnsweredFirst ==
    \E g \in Groups :
        /\ Len(groups[g].data) = 2
        /\ groups[g].data[1].date # groups[g].data[2].date
        /\ groups[g].data[1].lookup = "pending"
        /\ groups[g].data[2].lookup = "ok"

\* C24: every request of a Litecoin fetch after the first carries a
\* `before` cursor, so the first, cursor-less request is never sent again;
\* and while the fetch waits for a further page, the cursor of the request
\* outstanding is the block height of the last reference of the page before.
C24_ContinuationHasCursor ==
    \A g \in Groups :
        groups[g].coin = "litecoin" =>
            LET G == groups[g]
            IN  /\ \A k \in 2..Len(G.reqs) : G.reqs[k].cursor
                /\ (G.pc = "fetch" /\ Len(G.reqs) > 1) =>
                       G.reqs[Len(G.reqs)].at = G.last.lastHeight

\* C25: once both programs have finished with the same responses, the
\* table-driven variant has the result records of the class-based program
\* and has printed the same report.
C25_VariantsAgree ==
    (run # "pending" /\ TableSettled(groups)) =>
        /\ TableRecords(groups) = ClassRecords(groups)
        /\ TablePrintResults(groups) = report

\* What identifies a fetched transaction, whatever its price fields hold.
Fetched(txns) ==
    [i \in 1..Len(txns) |->
        [address |-> txns[i].address, realAmount |-> txns[i].realAmount,
         timestamp |-> txns[i].timestamp, date |-> txns[i].date,
         sender |-> txns[i].sender]]

\* The groups stand in the order of the configuration: coin after coin in
\* key order, address after address; and the rows of the report follow the
\* groups and, within a group, its transactions.
OrderOfConfig ==
    started =>
        /\ [g \in Groups |-> <<groups[g].coin, groups[g].addr>>]
              = [g \in 1..Len(Flatten(config)) |->
                    <<Flatten(config)[g].coin, Flatten(config)[g].addr>>]
        /\ run = "reported" =>
               /\ Len(report.rows) = ListedBefore(Len(groups))
               /\ \A g \in Groups : \A i \in 1..Len(groups[g].data) :
                      LET row == report.rows[ListedBefore(g - 1) + i]
                      IN  /\ row.code = CoinCode(groups[g].coin)
                          /\ row.address = groups[g].data[i].address
                          /\ row.date = groups[g].data[i].date

\* Once a fetch has resolved, no step moves, drops or adds a transaction of
\* its group: the list stays as the fetch left it.
FetchOrderKept ==
    \A g \in Groups :
        FetchResolved(groups[g]) =>
            Fetched(groups'[g].data) = Fetched(groups[g].data)

\* C26: the result records are in the order of the configuration and each
\* record's transactions in the order the fetch returned them, in whatever
\* order the price lookups are answered and the groups are built.
C26_OrderFixed == []OrderOfConfig /\ [][FetchOrderKept]_vars

\* Two address groups reported, the second built before the first: the
\* second had finished its lookups and was waiting for the current price
\* when it arrived, the first finished later; the first is printed first.
C26_SecondBuiltFirst ==
    /\ run = "reported"
    /\ Len(groups) = 2
    /\ groups[2].waited /\ ~groups[1].waited
    /\ Len(report.rows) = 2
    /\ report.rows[1].address = groups[1].addr[1]
    /\ report.rows[2].address = groups[2].addr[1]
    /\ groups[1].addr # groups[2].addr

====
